---- MODULE Spec2Model ----
(***************************************************************************)
(* A model of appcast_scraper.py: the harvest run of fetch_all_reports     *)
(* (login, the report catalog in order, webhook dispatch, release of the   *)
(* browser and the API request context) and the two recursive transforms   *)
(* filter_tiles_by_day_from_earliest and localize_decimals_for_de.         *)
(*                                                                         *)
(* Text is a sequence of one-character strings, so that slicing, stripping *)
(* and parsing are computed.  A JSON value is a tagged record              *)
(* [kind, val]; a dict is the sequence of its [k, v] pairs in insertion    *)
(* order.  A number is held in hundredths (583 is 5.83).  A date is the    *)
(* tuple <<year, month, day>>, compared as Python compares dates.          *)
(***************************************************************************)
EXTENDS Integers, Sequences, FiniteSets, TLC

VARIABLES
    pc,                 \* position of the run inside fetch_all_reports
    appcast_hook,       \* os.environ["appcast_hook"], or None
    APPCAST_HOOK,       \* os.environ["APPCAST_HOOK"], or None
    period_start,       \* argument of fetch_all_reports, text YYYY-MM-DD
    period_end,         \* argument of fetch_all_reports, text YYYY-MM-DD
    playwright,         \* the sync_playwright() driver: "off", "running", "stopped"
    browser,            \* "none", "open", "closed"
    api_context,        \* "none", "open", "disposed"
    gets,               \* the GETs issued so far, in order
    artifacts,          \* the files written so far, in order
    posts,              \* the webhook POSTs attempted so far, in order
    outcome,            \* "running", "success", "error"
    by_dyn_title_data,  \* local of fetch_all_reports
    by_dyn_city_data,   \* local of fetch_all_reports
    by_day_data,        \* local of fetch_all_reports
    data,               \* argument of a transform applied on its own
    filtered,           \* filter_tiles_by_day_from_earliest(data)
    refiltered,         \* filter_tiles_by_day_from_earliest(filtered)
    localized,          \* localize_decimals_for_de(data)
    fn_pc,              \* "idle", "input", "once", "twice", "localized"
    today               \* datetime.utcnow().date() as main sees it, or None

runVars == <<pc, appcast_hook, APPCAST_HOOK, period_start, period_end,
             playwright, browser, api_context, gets, artifacts, posts, outcome,
             by_dyn_title_data, by_dyn_city_data, by_day_data>>
fnVars == <<data, filtered, refiltered, localized, fn_pc, today>>
vars == <<runVars, fnVars>>

(***************************************************************************)
(* Bounds of the model.                                                    *)
(***************************************************************************)
\* the reporting window's dates lie within this many days of the cutoff
WindowSpan == 1
\* longest sequence given to the temporal filter
MaxItems == 2
\* longest container given to the number encoder
MaxWidth == 2
\* the reference dates run this many days on from each of their anchors
ReferenceSpan == 20

(***************************************************************************)
(* Text                                                                    *)
(***************************************************************************)
Digits == <<"0", "1", "2", "3", "4", "5", "6", "7", "8", "9">>

IsDigit(c) == \E i \in 1..10 : Digits[i] = c

DigitVal(c) == (CHOOSE i \in 1..10 : Digits[i] = c) - 1

Min(a, b) == IF a <= b THEN a ELSE b

\* value[:10]
Slice10(s) == SubSeq(s, 1, Min(10, Len(s)))

RECURSIVE NatToStr(_)
\* the decimal digits of a natural number
NatToStr(n) ==
    IF n < 10 THEN <<Digits[n + 1]>>
    ELSE NatToStr(n \div 10) \o <<Digits[(n % 10) + 1]>>

RECURSIVE RStrip(_, _)
\* s.rstrip(c)
RStrip(s, c) ==
    IF Len(s) > 0 /\ s[Len(s)] = c THEN RStrip(SubSeq(s, 1, Len(s) - 1), c) ELSE s

RECURSIVE Strip(_)
\* s.strip(), over the two characters the model's environment values use
Strip(s) ==
    IF Len(s) > 0 /\ s[1] = " " THEN Strip(Tail(s))
    ELSE IF Len(s) > 0 /\ s[Len(s)] = " " THEN Strip(SubSeq(s, 1, Len(s) - 1))
    ELSE s

\* s.replace(a, b) for single characters
Replace(s, a, b) == [i \in 1..Len(s) |-> IF s[i] = a THEN b ELSE s[i]]

\* zero-padded two-digit field, as {x:02d} and %m, %d
Pad2(n) == IF n < 10 THEN <<"0">> \o NatToStr(n) ELSE NatToStr(n)

\* zero-padded four-digit field, as %Y for the years of the model
Pad4(n) ==
    IF n < 10 THEN <<"0", "0", "0">> \o NatToStr(n)
    ELSE IF n < 100 THEN <<"0", "0">> \o NatToStr(n)
    ELSE IF n < 1000 THEN <<"0">> \o NatToStr(n)
    ELSE NatToStr(n)

(***************************************************************************)
(* Dates                                                                   *)
(***************************************************************************)
\* None, where a date was expected
NoDate == <<>>

EARLIEST_DAILY_DATE == <<2025, 11, 17>>

IsLeap(y) == y % 4 = 0 /\ (y % 100 # 0 \/ y % 400 = 0)

DaysInMonth(y, m) ==
    IF m = 2 THEN (IF IsLeap(y) THEN 29 ELSE 28)
    ELSE IF m \in {4, 6, 9, 11} THEN 30 ELSE 31

\* a <= b on datetime.date
DateLE(a, b) ==
    \/ a[1] < b[1]
    \/ a[1] = b[1] /\ a[2] < b[2]
    \/ a[1] = b[1] /\ a[2] = b[2] /\ a[3] <= b[3]

\* max(a, b) on datetime.date
DateMax(a, b) == IF DateLE(a, b) THEN b ELSE a

\* d.strftime("%Y-%m-%d")
StrFTime(d) == Pad4(d[1]) \o <<"-">> \o Pad2(d[2]) \o <<"-">> \o Pad2(d[3])

\* datetime.strptime(s, "%Y-%m-%d").date(), NoDate where it raises ValueError.
\* The format's pattern is (\d\d\d\d)-(1[0-2]|0[1-9]|[1-9])-(3[01]|[12]\d|0[1-9]|[1-9]| [1-9])
\* matched at the start of s; text left over after the match is an error, and
\* so is a day the month does not have or the year 0.
StrPTime(s) ==
    LET n == Len(s)
        yearOk == n >= 5 /\ (\A i \in 1..4 : IsDigit(s[i])) /\ s[5] = "-"
        m2 == /\ n >= 8
              /\ \/ s[6] = "1" /\ s[7] \in {"0", "1", "2"}
                 \/ s[6] = "0" /\ IsDigit(s[7]) /\ s[7] # "0"
              /\ s[8] = "-"
        m1 == n >= 7 /\ IsDigit(s[6]) /\ s[6] # "0" /\ s[7] = "-"
        p == IF m2 THEN 9 ELSE 8
        d2 == /\ n >= p + 1
              /\ \/ s[p] = "3" /\ s[p + 1] \in {"0", "1"}
                 \/ s[p] \in {"1", "2"} /\ IsDigit(s[p + 1])
                 \/ s[p] = "0" /\ IsDigit(s[p + 1]) /\ s[p + 1] # "0"
        d1 == n >= p /\ IsDigit(s[p]) /\ s[p] # "0"
        dsp == n >= p + 1 /\ s[p] = " " /\ IsDigit(s[p + 1]) /\ s[p + 1] # "0"
        dayLen == IF d2 THEN 2 ELSE IF d1 THEN 1 ELSE IF dsp THEN 2 ELSE 0
        year == DigitVal(s[1]) * 1000 + DigitVal(s[2]) * 100
                + DigitVal(s[3]) * 10 + DigitVal(s[4])
        month == IF m2 THEN DigitVal(s[6]) * 10 + DigitVal(s[7]) ELSE DigitVal(s[6])
        day == IF d2 THEN DigitVal(s[p]) * 10 + DigitVal(s[p + 1])
               ELSE IF d1 THEN DigitVal(s[p]) ELSE DigitVal(s[p + 1])
    IN  IF /\ yearOk
           /\ (m2 \/ m1)
           /\ dayLen > 0
           /\ p + dayLen - 1 = n
           /\ year >= 1
           /\ day <= DaysInMonth(year, month)
        THEN <<year, month, day>>
        ELSE NoDate

\* days before January 1st of year y, as datetime._days_before_year
DaysBeforeYear(y) ==
    (y - 1) * 365 + ((y - 1) \div 4) - ((y - 1) \div 100) + ((y - 1) \div 400)

RECURSIVE DaysBeforeMonth(_, _)
\* days of year y before the first of month m, as datetime._days_before_month
DaysBeforeMonth(y, m) ==
    IF m = 1 THEN 0 ELSE DaysBeforeMonth(y, m - 1) + DaysInMonth(y, m - 1)

\* d.toordinal(): 0001-01-01 is day 1
ToOrdinal(d) == DaysBeforeYear(d[1]) + DaysBeforeMonth(d[1], d[2]) + d[3]

\* date.fromordinal(n), by the 400 / 100 / 4 / 1 year cycles of
\* datetime._ord2ymd
FromOrdinal(ordinal) ==
    LET n0 == ordinal - 1
        n400 == n0 \div 146097
        r400 == n0 % 146097
        n100 == r400 \div 36524
        r100 == r400 % 36524
        n4 == r100 \div 1461
        r4 == r100 % 1461
        n1 == r4 \div 365
        n == r4 % 365
        year == n400 * 400 + 1 + n100 * 100 + n4 * 4 + n1
        guess == (n + 50) \div 32
        month == IF DaysBeforeMonth(year, guess) > n THEN guess - 1 ELSE guess
    IN  IF n1 = 4 \/ n100 = 4 THEN <<year - 1, 12, 31>>
        ELSE <<year, month, n - DaysBeforeMonth(year, month) + 1>>

\* d.weekday(): 0 is Monday
Weekday(d) == (ToOrdinal(d) + 6) % 7

\* d - timedelta(days=k)
MinusDays(d, k) == FromOrdinal(ToOrdinal(d) - k)

(***************************************************************************)
(* JSON values                                                             *)
(***************************************************************************)
JNull == [kind |-> "null", val |-> <<>>]
JBool(b) == [kind |-> "bool", val |-> b]
JNum(hundredths) == [kind |-> "num", val |-> hundredths]
JStr(s) == [kind |-> "str", val |-> s]
JList(items) == [kind |-> "list", val |-> items]
JDict(pairs) == [kind |-> "dict", val |-> pairs]

\* no value yet (a local not assigned, a transform not applied)
Unset == [kind |-> "unset", val |-> <<>>]

\* isinstance(x, dict), isinstance(x, list)
IsDict(x) == x.kind = "dict"
IsList(x) == x.kind = "list"

\* key in d
HasKey(d, key) == \E i \in 1..Len(d.val) : d.val[i].k = key

\* d.get(key, ""), for a key d has
Get(d, key) == d.val[CHOOSE i \in 1..Len(d.val) : d.val[i].k = key].v

\* the keys of a dict, in order
Keys(d) == [i \in 1..Len(d.val) |-> d.val[i].k]

(***************************************************************************)
(* The environment                                                         *)
(***************************************************************************)
\* os.getenv(name): None when the variable is not set, else its text
EnvUnset == [set |-> FALSE, text |-> <<>>]
EnvText(s) == [set |-> TRUE, text |-> s]

\* bool(v) of an Optional[str]
Truthy(v) == v.set /\ Len(v.text) > 0

\* the values a variable of the environment may hold
EnvValues == {EnvUnset, EnvText(<<>>), EnvText(<<" ">>), EnvText(<<" ", "h">>)}

(***************************************************************************)
(* localize_decimals_for_de                                                *)
(***************************************************************************)
\* "." in s
Contains(s, c) == \E i \in 1..Len(s) : s[i] = c

\* f"{obj:.2f}" for a number held in hundredths
FormatFixed2(h) ==
    LET a == IF h < 0 THEN 0 - h ELSE h
    IN  (IF h < 0 THEN <<"-">> ELSE <<>>)
        \o NatToStr(a \div 100) \o <<".">> \o Pad2(a % 100)

\* the three lines that turn a number into its German text
NumberText(h) ==
    LET s == FormatFixed2(h)
        t == IF Contains(s, ".") THEN RStrip(RStrip(s, "0"), ".") ELSE s
    IN  Replace(t, ".", ",")

\* isinstance(obj, (int, float)): bool is a subclass of int
IsIntOrFloat(obj) == obj.kind \in {"num", "bool"}

\* the number Python formats: True is 1, False is 0
Hundredths(obj) ==
    IF obj.kind = "bool" THEN (IF obj.val THEN 100 ELSE 0) ELSE obj.val

RECURSIVE localize_decimals_for_de(_)
localize_decimals_for_de(obj) ==
    IF IsDict(obj)
    THEN JDict([i \in 1..Len(obj.val) |->
                  [k |-> obj.val[i].k, v |-> localize_decimals_for_de(obj.val[i].v)]])
    ELSE IF IsList(obj)
    THEN JList([i \in 1..Len(obj.val) |-> localize_decimals_for_de(obj.val[i])])
    ELSE IF IsIntOrFloat(obj)
    THEN JStr(NumberText(Hundredths(obj)))
    ELSE obj

(***************************************************************************)
(* filter_tiles_by_day_from_earliest                                       *)
(***************************************************************************)
\* the nested parse_date: slicing anything but text raises, and every
\* exception gives None
parse_date(value) ==
    IF value.kind = "str" THEN StrPTime(Slice10(value.val)) ELSE NoDate


\* KeepItem with d > EARLIEST_DAILY_DATE for d >= EARLIEST_DAILY_DATE
KeepItemStrictlyAfter(item) ==
    IF IsDict(item) /\ HasKey(item, "date")
    THEN LET d == parse_date(Get(item, "date"))
         IN  d # NoDate /\ d # EARLIEST_DAILY_DATE /\ DateLE(EARLIEST_DAILY_DATE, d)
    ELSE TRUE

\* the loop body's test: whether the item is appended
KeepItem(item) ==
    IF IsDict(item) /\ HasKey(item, "date")
    THEN LET d == parse_date(Get(item, "date"))
         IN  d # NoDate /\ DateLE(EARLIEST_DAILY_DATE, d)
    ELSE TRUE

RECURSIVE RemoveWhileIterating(_, _)
\* for item in items: if not keep(item): del items[i] -- the loop's index moves
\* on after a deletion, past the element that took the deleted one's place
RemoveWhileIterating(items, i) ==
    IF i > Len(items) THEN items
    ELSE IF KeepItem(items[i]) THEN RemoveWhileIterating(items, i + 1)
    ELSE RemoveWhileIterating(SubSeq(items, 1, i - 1) \o SubSeq(items, i + 1, Len(items)),
                              i + 1)

\* FilterItems deleting from the list it iterates over, not building a new one
FilterItemsInPlace(items) == RemoveWhileIterating(items, 1)

\* the for loop that builds filtered / new_list
FilterItems(items) == SelectSeq(items, KeepItem)

\* next((v for v in val if isinstance(v, dict)), None), with "date" in sample
SampleHasDate(items) ==
    /\ \E i \in 1..Len(items) : IsDict(items[i])
    /\ LET first == CHOOSE i \in 1..Len(items) :
                       IsDict(items[i]) /\ \A j \in 1..(i - 1) : ~IsDict(items[j])
           sample == items[first]
       IN  Len(sample.val) > 0 /\ HasKey(sample, "date")

\* the value stored back under a key of a top-level dict
FilterValue(val) ==
    IF IsList(val) /\ Len(val.val) > 0 /\ SampleHasDate(val.val)
    THEN JList(FilterItems(val.val))
    ELSE val

filter_tiles_by_day_from_earliest(d) ==
    IF IsList(d) THEN JList(FilterItems(d.val))
    ELSE IF IsDict(d)
    THEN JDict([i \in 1..Len(d.val) |->
                  [k |-> d.val[i].k, v |-> FilterValue(d.val[i].v)]])
    ELSE d

(***************************************************************************)
(* Inputs of the transforms                                                *)
(***************************************************************************)
SeqsUpTo(S, n) == UNION {[1..k -> S] : k \in 0..n}

Distinct(s) == \A i, j \in 1..Len(s) : i # j => s[i] # s[j]

\* dicts with the keys ks, in that order, and values from S
DictsOver(ks, S) ==
    {JDict([i \in 1..Len(ks) |-> [k |-> ks[i], v |-> vs[i]]]) :
        vs \in [1..Len(ks) -> S]}

DayBefore == StrFTime(<<2025, 11, 16>>)
DayOfCutoff == StrFTime(EARLIEST_DAILY_DATE) \o <<"T", "0", "0", ":", "0", "0">>

\* what a sequence handed to the filter may hold
Records ==
    { JNum(100),
      JDict(<<>>),
      JDict(<<[k |-> "clicks", v |-> JNum(300)]>>),
      JDict(<<[k |-> "date", v |-> JStr(DayBefore)]>>),
      JDict(<<[k |-> "date", v |-> JStr(DayOfCutoff)]>>),
      JDict(<<[k |-> "date", v |-> JStr(<<"n", "/", "a">>)]>>),
      JDict(<<[k |-> "date", v |-> JNull]>>) }

\* a value of a top-level mapping: a sequence of records, or text
MappingValues(n) == {JList(s) : s \in [1..n -> Records]} \cup {JStr(<<"o", "k">>)}

\* the key sequences of a top-level mapping
KeySeqs == {<<>>, <<"tiles">>, <<"tiles", "meta">>, <<"meta", "tiles">>}

\* values that are neither a sequence nor a mapping
OtherShapes == {JNull, JNum(100), JStr(DayBefore)}

Leaves ==
    {JNull, JBool(TRUE), JBool(FALSE), JNum(583), JNum(1000), JNum(0 - 50),
     JStr(<<"5", ".", "8", "3">>)}

FlatLists == {JList(s) : s \in SeqsUpTo(Leaves, MaxWidth)}

FlatDicts ==
    UNION { DictsOver(ks, Leaves) :
              ks \in {s \in SeqsUpTo({"spent", "title"}, MaxWidth) : Distinct(s)} }

\* a mapping containing a sequence, a sequence containing a mapping
NestedValues ==
    DictsOver(<<"rows">>, FlatLists \cup FlatDicts)
    \cup {JList(<<x>>) : x \in FlatLists \cup FlatDicts}

LocalizeInputs == Leaves \cup FlatLists \cup FlatDicts \cup NestedValues

(***************************************************************************)
(* The transforms applied on their own                                     *)
(***************************************************************************)
RunIdle ==
    /\ pc = "idle"
    /\ appcast_hook = EnvUnset
    /\ APPCAST_HOOK = EnvUnset
    /\ period_start = <<>>
    /\ period_end = <<>>
    /\ playwright = "off"
    /\ browser = "none"
    /\ api_context = "none"
    /\ gets = <<>>
    /\ artifacts = <<>>
    /\ posts = <<>>
    /\ outcome = "running"
    /\ by_dyn_title_data = Unset
    /\ by_dyn_city_data = Unset
    /\ by_day_data = Unset

InitFilter ==
    /\ RunIdle
    /\ \E shape \in {"list", "dict", "other"} :
          IF shape = "list"
          THEN \E n \in 0..MaxItems : \E s \in [1..n -> Records] : data = JList(s)
          ELSE IF shape = "dict"
          THEN \E ks \in KeySeqs : \E n \in 0..MaxItems :
                  \E vs \in [1..Len(ks) -> MappingValues(n)] :
                     data = JDict([i \in 1..Len(ks) |-> [k |-> ks[i], v |-> vs[i]]])
          ELSE data \in OtherShapes
    /\ filtered = Unset
    /\ refiltered = Unset
    /\ localized = Unset
    /\ fn_pc = "input"
    /\ today = NoDate

ApplyFilter ==
    /\ fn_pc = "input"
    /\ filtered' = filter_tiles_by_day_from_earliest(data)
    /\ fn_pc' = "once"
    /\ UNCHANGED <<runVars, data, refiltered, localized, today>>

ApplyFilterAgain ==
    /\ fn_pc = "once"
    /\ refiltered' = filter_tiles_by_day_from_earliest(filtered)
    /\ fn_pc' = "twice"
    /\ UNCHANGED <<runVars, data, filtered, localized, today>>

NextFilter == ApplyFilter \/ ApplyFilterAgain

SpecFilter == InitFilter /\ [][NextFilter]_vars

InitLocalize ==
    /\ RunIdle
    /\ data \in LocalizeInputs
    /\ filtered = Unset
    /\ refiltered = Unset
    /\ localized = Unset
    /\ fn_pc = "input"
    /\ today = NoDate

ApplyLocalize ==
    /\ fn_pc = "input"
    /\ localized' = localize_decimals_for_de(data)
    /\ fn_pc' = "localized"
    /\ UNCHANGED <<runVars, data, filtered, refiltered, today>>

NextLocalize == ApplyLocalize

SpecLocalize == InitLocalize /\ [][NextLocalize]_vars

(***************************************************************************)
(* The harvest run: fetch_all_reports                                      *)
(***************************************************************************)
\* the report catalog, in the order fetch_all_reports issues it
Catalog ==
    <<"hero_metrics", "by_month", "by_dynamic_field_tagged_category",
      "by_dynamic_field_title", "by_dynamic_field_city", "by_week", "by_day",
      "by_source_index", "tiles_by_day">>

CatalogIndex(entry) == CHOOSE i \in 1..Len(Catalog) : Catalog[i] = entry

\* where the run goes after a fetch of the entry at pc has been saved
AfterFetch ==
    [hero_metrics |-> "by_month",
     by_month |-> "by_dynamic_field_tagged_category",
     by_dynamic_field_tagged_category |-> "by_dynamic_field_title",
     by_dynamic_field_title |-> "by_dynamic_field_city",
     by_dynamic_field_city |-> "by_week",
     by_week |-> "by_day",
     by_day |-> "by_day_webhook",
     by_source_index |-> "tiles_by_day",
     tiles_by_day |-> "release"]

\* the dates a reporting window is drawn from
WindowDates ==
    {<<EARLIEST_DAILY_DATE[1], EARLIEST_DAILY_DATE[2], d>> :
        d \in (EARLIEST_DAILY_DATE[3] - WindowSpan)..(EARLIEST_DAILY_DATE[3] + WindowSpan)}

\* a response body nothing later reads
OpaqueBody == JDict(<<[k |-> "total", v |-> JNum(1000)]>>)

\* response bodies of the reports that are forwarded to the webhook
ReportBodies ==
    {JDict(<<[k |-> "spent", v |-> JNum(583)]>>),
     JDict(<<[k |-> "rows", v |-> JList(<<JNum(1000), JBool(TRUE)>>)]>>)}

\* response bodies of tiles_by_day
TilesBodies ==
    {JList(<<JDict(<<[k |-> "date", v |-> JStr(DayBefore)]>>),
             JDict(<<[k |-> "date", v |-> JStr(DayOfCutoff)]>>)>>),
     JDict(<<[k |-> "tiles",
              v |-> JList(<<JDict(<<[k |-> "clicks", v |-> JNum(300)]>>),
                            JDict(<<[k |-> "date", v |-> JStr(DayBefore)]>>)>>)]>>)}

ResponseBodies(entry) ==
    IF entry \in {"by_dynamic_field_title", "by_dynamic_field_city", "by_day"}
    THEN ReportBodies
    ELSE IF entry = "tiles_by_day" THEN TilesBodies
    ELSE {OpaqueBody}

\* how a POST to the webhook can end
PostResults == {"ok", "http_error", "network_error", "timeout"}

\* year = period_end.split("-")[0]
Year == SubSeq(period_end, 1, (CHOOSE i \in 1..Len(period_end) : period_end[i] = "-"
                                  /\ \A j \in 1..(i - 1) : period_end[j] # "-") - 1)


\* daily_start_dt without the max(...) against EARLIEST_DAILY_DATE
daily_start_unclamped == StrPTime(period_start)

\* the start and end dates among the query parameters of an entry
daily_start_dt == DateMax(StrPTime(period_start), EARLIEST_DAILY_DATE)
daily_end_dt == StrPTime(period_end)

StartParam(entry) ==
    IF entry \in {"hero_metrics", "tiles_by_day"} THEN <<>>
    ELSE IF entry = "by_month" THEN Year \o <<"-", "1", "-", "1">>
    ELSE IF entry = "by_day" THEN StrFTime(daily_start_dt)
    ELSE period_start

EndParam(entry) ==
    IF entry \in {"hero_metrics", "tiles_by_day"} THEN <<>>
    ELSE IF entry = "by_month" THEN Year \o <<"-", "1", "2", "-", "3", "1">>
    ELSE IF entry = "by_day" THEN StrFTime(daily_end_dt)
    ELSE period_end

\* postprocess, where fetch_all_reports passes one
Postprocess(entry, json) ==
    IF entry = "tiles_by_day" THEN filter_tiles_by_day_from_earliest(json) ELSE json

Init ==
    /\ pc = "start"
    /\ appcast_hook \in EnvValues
    /\ APPCAST_HOOK \in EnvValues
    /\ \E s, e \in WindowDates :
          /\ DateLE(s, e)
          /\ period_start = StrFTime(s)
          /\ period_end = StrFTime(e)
    /\ playwright = "off"
    /\ browser = "none"
    /\ api_context = "none"
    /\ gets = <<>>
    /\ artifacts = <<>>
    /\ posts = <<>>
    /\ outcome = "running"
    /\ by_dyn_title_data = Unset
    /\ by_dyn_city_data = Unset
    /\ by_day_data = Unset
    /\ data = Unset
    /\ filtered = Unset
    /\ refiltered = Unset
    /\ localized = Unset
    /\ fn_pc = "idle"
    /\ today = NoDate

\* an exception leaves fetch_all_reports through the with statement, whose
\* exit stops the Playwright driver; nothing else is run on the way out
Raise ==
    /\ pc' = "done"
    /\ outcome' = "error"
    /\ playwright' = "stopped"

\* with sync_playwright() as pw: browser, context = login_with_playwright(pw, cfg)
Login ==
    /\ pc = "start"
    /\ browser' = "open"
    /\ \E signal \in {"logged_in", "timeout"} :
          IF signal = "logged_in"
          THEN pc' = "new_context" /\ playwright' = "running" /\ outcome' = outcome
          ELSE Raise
    /\ UNCHANGED <<appcast_hook, APPCAST_HOOK, period_start, period_end, api_context,
                   gets, artifacts, posts, by_dyn_title_data, by_dyn_city_data,
                   by_day_data, fnVars>>

\* state = context.storage_state(); api_context = pw.request.new_context(...)
NewApiContext ==
    /\ pc = "new_context"
    /\ api_context' = "open"
    /\ pc' = "hero_metrics"
    /\ UNCHANGED <<appcast_hook, APPCAST_HOOK, period_start, period_end, playwright,
                   browser, gets, artifacts, posts, outcome, by_dyn_title_data,
                   by_dyn_city_data, by_day_data, fnVars>>


\* fetch_and_save without its status check
FetchNeverRaises(ok) == FALSE

\* if not resp.ok: raise RuntimeError(...)
FetchRaises(ok) == ~ok

\* fetch_and_save for the entry at pc: the GET, the status check, the
\* postprocess and the write; the returned data is kept where the caller
\* assigns it
fetch_and_save(entry, ok, json) ==
    /\ gets' = Append(gets, [entry |-> entry, start_date |-> StartParam(entry),
                             end_date |-> EndParam(entry), ok |-> ok])
    /\ IF FetchRaises(ok)
       THEN /\ Raise
            /\ UNCHANGED <<artifacts, by_dyn_title_data, by_dyn_city_data, by_day_data>>
       ELSE /\ artifacts' = Append(artifacts,
                                   [entry |-> entry, start_date |-> StartParam(entry),
                                    end_date |-> EndParam(entry),
                                    data |-> Postprocess(entry, json)])
            /\ by_dyn_title_data' =
                  IF entry = "by_dynamic_field_title" THEN Postprocess(entry, json)
                  ELSE by_dyn_title_data
            /\ by_dyn_city_data' =
                  IF entry = "by_dynamic_field_city" THEN Postprocess(entry, json)
                  ELSE by_dyn_city_data
            /\ by_day_data' =
                  IF entry = "by_day" THEN Postprocess(entry, json) ELSE by_day_data
            /\ pc' = AfterFetch[entry]
            /\ UNCHANGED <<playwright, outcome>>
    /\ UNCHANGED <<appcast_hook, APPCAST_HOOK, period_start, period_end, browser,
                   api_context, posts, fnVars>>

\* the fetches that are issued whatever the window is
Fetch ==
    /\ pc \in {"hero_metrics", "by_month", "by_dynamic_field_tagged_category",
               "by_dynamic_field_title", "by_dynamic_field_city", "by_week",
               "by_source_index", "tiles_by_day"}
    /\ \E ok \in BOOLEAN : \E json \in ResponseBodies(pc) : fetch_and_save(pc, ok, json)

\* 5) by_day: fetched if daily_start_dt <= daily_end_dt, else skipped with a note
ByDay ==
    /\ pc = "by_day"
    /\ IF DateLE(daily_start_dt, daily_end_dt)
       THEN \E ok \in BOOLEAN : \E json \in ResponseBodies(pc) : fetch_and_save(pc, ok, json)
       ELSE /\ pc' = "title_webhook"
            /\ UNCHANGED <<appcast_hook, APPCAST_HOOK, period_start, period_end,
                           playwright, browser, api_context, gets, artifacts, posts,
                           outcome, by_dyn_title_data, by_dyn_city_data, by_day_data,
                           fnVars>>


\* get_appcast_hook_url with a fallback URL in the code
get_appcast_hook_url_with_fallback ==
    LET env_url == IF Truthy(appcast_hook) THEN appcast_hook ELSE APPCAST_HOOK
    IN  IF Truthy(env_url) THEN EnvText(Strip(env_url.text)) ELSE EnvText(<<"h">>)

get_appcast_hook_url ==
    LET env_url == IF Truthy(appcast_hook) THEN appcast_hook ELSE APPCAST_HOOK
    IN  IF Truthy(env_url) THEN EnvText(Strip(env_url.text)) ELSE EnvUnset


\* send_report_to_webhook without the try / except around the POST
PostOutcomeUncaught(result) == IF result = "ok" THEN "returned" ELSE "raised"

\* try: requests.post(...); resp.raise_for_status() except Exception: print(...)
PostOutcome(result) == "returned"

send_report_to_webhook(report_type, dynamic_field, start_date, end_date, report, next) ==
    LET hook_url == get_appcast_hook_url
    IN  /\ IF ~Truthy(hook_url)
           THEN /\ posts' = posts
                /\ pc' = next
                /\ UNCHANGED <<playwright, outcome>>
           ELSE \E result \in PostResults :
                   /\ posts' = Append(posts,
                                      [url |-> hook_url.text,
                                       report_type |-> report_type,
                                       dynamic_field |-> dynamic_field,
                                       start_date |-> start_date,
                                       end_date |-> end_date,
                                       report |-> localize_decimals_for_de(report),
                                       result |-> result])
                   /\ IF PostOutcome(result) = "raised"
                      THEN Raise
                      ELSE pc' = next /\ UNCHANGED <<playwright, outcome>>
        /\ UNCHANGED <<appcast_hook, APPCAST_HOOK, period_start, period_end, browser,
                       api_context, gets, artifacts, by_dyn_title_data,
                       by_dyn_city_data, by_day_data, fnVars>>

\* the webhook call inside the by_day branch
ByDayWebhook ==
    /\ pc = "by_day_webhook"
    /\ send_report_to_webhook("by_day", "", StrFTime(daily_start_dt),
                              StrFTime(daily_end_dt), by_day_data, "title_webhook")

\* the webhook call for by_dynamic_field(title), after the by_day branch
TitleWebhook ==
    /\ pc = "title_webhook"
    /\ send_report_to_webhook("by_dynamic_field", "title", period_start, period_end,
                              by_dyn_title_data, "city_webhook")

\* the webhook call for by_dynamic_field(city)
CityWebhook ==
    /\ pc = "city_webhook"
    /\ send_report_to_webhook("by_dynamic_field", "city", period_start, period_end,
                              by_dyn_city_data, "by_source_index")

\* api_context.dispose(); browser.close(), and the with statement's exit
Release ==
    /\ pc = "release"
    /\ api_context' = "disposed"
    /\ browser' = "closed"
    /\ playwright' = "stopped"
    /\ outcome' = "success"
    /\ pc' = "done"
    /\ UNCHANGED <<appcast_hook, APPCAST_HOOK, period_start, period_end, gets,
                   artifacts, posts, by_dyn_title_data, by_dyn_city_data, by_day_data,
                   fnVars>>

Next ==
    \/ Login
    \/ NewApiContext
    \/ Fetch
    \/ ByDay
    \/ ByDayWebhook
    \/ TitleWebhook
    \/ CityWebhook
    \/ Release

Spec == Init /\ [][Next]_vars

(***************************************************************************)
(* main: the reporting window, last_calendar_week_range                    *)
(***************************************************************************)
\* this_monday with today.isoweekday() (1 is Monday) for today.weekday()
this_monday_isoweekday(t) == MinusDays(t, Weekday(t) + 1)

\* this_monday = today - timedelta(days=today.weekday())
this_monday(t) == MinusDays(t, Weekday(t))

\* last_monday = this_monday - timedelta(days=7)
last_monday(t) == MinusDays(this_monday(t), 7)

\* last_sunday = this_monday - timedelta(days=1)
last_sunday(t) == MinusDays(this_monday(t), 1)

\* the pair last_calendar_week_range returns when today is t
last_calendar_week_range(t) == <<StrFTime(last_monday(t)), StrFTime(last_sunday(t))>>

\* the reference dates start at these days: before a new year, in the
\* February of a leap year, around the cutoff, in the February of 2100
ReferenceAnchors == {<<2023, 12, 20>>, <<2024, 2, 15>>, <<2025, 11, 25>>, <<2100, 2, 15>>}

ReferenceDates ==
    {FromOrdinal(ToOrdinal(a) + k) : a \in ReferenceAnchors, k \in 0..ReferenceSpan}

InitWeek ==
    /\ RunIdle
    /\ today \in ReferenceDates
    /\ data = Unset
    /\ filtered = Unset
    /\ refiltered = Unset
    /\ localized = Unset
    /\ fn_pc = "idle"

\* main: period_start, period_end = last_calendar_week_range(), the
\* arguments fetch_all_reports is then called with
LastCalendarWeekRange ==
    /\ pc = "idle"
    /\ today # NoDate
    /\ period_start' = last_calendar_week_range(today)[1]
    /\ period_end' = last_calendar_week_range(today)[2]
    /\ pc' = "start"
    /\ UNCHANGED <<appcast_hook, APPCAST_HOOK, playwright, browser, api_context, gets,
                   artifacts, posts, outcome, by_dyn_title_data, by_dyn_city_data,
                   by_day_data, fnVars>>

NextWeek == LastCalendarWeekRange

SpecWeek == InitWeek /\ [][NextWeek]_vars

(***************************************************************************)
(* Properties                                                              *)
(***************************************************************************)
Entries(seq) == [i \in 1..Len(seq) |-> seq[i].entry]

Fetched(entry) == \E i \in 1..Len(gets) : gets[i].entry = entry

Saved(entry) == \E i \in 1..Len(artifacts) : artifacts[i].entry = entry

AllGetsOk == \A i \in 1..Len(gets) : gets[i].ok

\* the run got as far as the catalog, every GET it issued succeeded, and it ended
EndedWithEveryGetOk == pc = "done" /\ api_context # "none" /\ AllGetsOk

InWindow(entry) == entry # "by_day" \/ DateLE(EARLIEST_DAILY_DATE, StrPTime(period_end))

\* the catalog entries a run with this window executes when nothing fails
ExpectedEntries == SelectSeq(Catalog, InWindow)

\* C1: once the login browser and the API request context have both been
\* created, both have been released (api_context.dispose, browser.close) when
\* the run has ended, whichever way it ended.
C1_ReleasedOnEveryExit ==
    (pc = "done" /\ browser # "none" /\ api_context # "none")
        => (api_context = "disposed" /\ browser = "closed")

\* C2: a GET that returned a non-success status is the last GET of the run:
\* the run has ended with an error, no artifact exists for that entry, and
\* every artifact written belongs to an entry earlier in catalog order (so no
\* later entry was fetched, post-processed or written).
C2_FetchErrorAborts ==
    \A i \in 1..Len(gets) :
        ~gets[i].ok =>
            /\ i = Len(gets)
            /\ pc = "done" /\ outcome = "error"
            /\ ~Saved(gets[i].entry)
            /\ \A j \in 1..Len(artifacts) :
                  CatalogIndex(artifacts[j].entry) < CatalogIndex(gets[i].entry)
            /\ \A j \in 1..(i - 1) :
                  CatalogIndex(gets[j].entry) < CatalogIndex(gets[i].entry)

C2_Witness ==
    /\ pc = "done" /\ outcome = "error"
    /\ Len(gets) = 6
    /\ gets[6].entry = "by_week" /\ ~gets[6].ok
    /\ Len(artifacts) = 5

\* whether a POST is the notification of a catalog entry
Notifies(post, entry) ==
    \/ entry = "by_day" /\ post.report_type = "by_day"
    \/ /\ entry = "by_dynamic_field_title"
       /\ post.report_type = "by_dynamic_field" /\ post.dynamic_field = "title"
    \/ /\ entry = "by_dynamic_field_city"
       /\ post.report_type = "by_dynamic_field" /\ post.dynamic_field = "city"

Notified(entry) == \E i \in 1..Len(posts) : Notifies(posts[i], entry)

NotifyingEntries == {"by_dynamic_field_title", "by_dynamic_field_city", "by_day"}

\* C3: with a webhook endpoint configured, when the GET of a later catalog
\* entry has been issued, every notifying entry (title, city, by_day) whose
\* artifact is persisted has already had its delivery attempt.
C3_NotifiedBeforeNextGet ==
    \A n \in NotifyingEntries :
        ( /\ Truthy(get_appcast_hook_url)
          /\ Saved(n)
          /\ \E i \in 1..Len(gets) : CatalogIndex(gets[i].entry) > CatalogIndex(n) )
            => Notified(n)

\* C4: a failed delivery never ends the run: an error outcome comes only from
\* the login or from a GET that failed; a run whose GETs all succeeded ends
\* in success with exactly the GETs and artifacts of its window, whatever the
\* deliveries did; and no notification is attempted twice.
C4_DeliveryFailureSwallowed ==
    /\ outcome = "error" => (gets = <<>> \/ ~gets[Len(gets)].ok)
    /\ EndedWithEveryGetOk =>
          /\ outcome = "success"
          /\ Entries(gets) = ExpectedEntries
          /\ Entries(artifacts) = ExpectedEntries
    /\ \A i, j \in 1..Len(posts) :
          (posts[i].report_type = posts[j].report_type
             /\ posts[i].dynamic_field = posts[j].dynamic_field) => i = j

C4_Witness ==
    /\ pc = "done" /\ outcome = "success"
    /\ Len(posts) = 3
    /\ posts[1].result = "http_error"
    /\ posts[2].result = "network_error"
    /\ posts[3].result = "timeout"
    /\ Saved("tiles_by_day")

\* neither appcast_hook nor APPCAST_HOOK is set to a non-empty value
NoEndpointConfigured == ~Truthy(appcast_hook) /\ ~Truthy(APPCAST_HOOK)

IsPrefix(s, t) == Len(s) <= Len(t) /\ s = SubSeq(t, 1, Len(s))

\* C5: with no endpoint configured no POST is ever attempted; and in every
\* run, with an endpoint or without, the GETs issued are a prefix of the
\* window's catalog entries, the artifacts written are a prefix of the GETs,
\* and a run whose GETs all succeeded ends in success with all of them.
C5_NoEndpointNoPosts ==
    /\ NoEndpointConfigured => posts = <<>>
    /\ IsPrefix(Entries(gets), ExpectedEntries)
    /\ IsPrefix(Entries(artifacts), Entries(gets))
    /\ EndedWithEveryGetOk =>
          /\ outcome = "success"
          /\ Entries(gets) = ExpectedEntries
          /\ Entries(artifacts) = ExpectedEntries

C5_Witness ==
    /\ NoEndpointConfigured
    /\ appcast_hook = EnvText(<<>>)
    /\ pc = "done" /\ outcome = "success"
    /\ Saved("by_day") /\ Saved("by_dynamic_field_title") /\ Saved("by_dynamic_field_city")
    /\ posts = <<>>

\* the run has gone past the by_day entry
PastByDay ==
    \/ pc \in {"by_day_webhook", "title_webhook", "city_webhook", "by_source_index",
               "tiles_by_day", "release"}
    \/ pc = "done" /\ \E i \in 1..Len(gets) : gets[i].entry = "by_week" /\ gets[i].ok

\* C6: if the window ends before the cutoff, by_day is never fetched or
\* written and a run whose GETs all succeed goes on through by_source_index
\* and tiles_by_day to success; if it ends on or after the cutoff, by_day is
\* fetched once the run is past it, with cutoff <= start date <= end date.
C6_ByDayCutoff ==
    LET end_dt == StrPTime(period_end)
    IN  /\ ~DateLE(EARLIEST_DAILY_DATE, end_dt) =>
              /\ ~Fetched("by_day") /\ ~Saved("by_day")
              /\ EndedWithEveryGetOk =>
                    /\ outcome = "success"
                    /\ Saved("by_source_index") /\ Saved("tiles_by_day")
        /\ DateLE(EARLIEST_DAILY_DATE, end_dt) =>
              /\ PastByDay => Fetched("by_day")
              /\ \A i \in 1..Len(gets) :
                    gets[i].entry = "by_day" =>
                        /\ DateLE(EARLIEST_DAILY_DATE, StrPTime(gets[i].start_date))
                        /\ DateLE(StrPTime(gets[i].start_date), StrPTime(gets[i].end_date))
                        /\ gets[i].end_date = period_end

C6_Witness ==
    /\ ~DateLE(EARLIEST_DAILY_DATE, StrPTime(period_end))
    /\ pc = "done" /\ outcome = "success"
    /\ ~Fetched("by_day")
    /\ Saved("by_week") /\ Saved("by_source_index") /\ Saved("tiles_by_day")

RECURSIVE OnlyNumbersReplaced(_, _)
\* b has the container shape and keys of a, its text, boolean and null leaves,
\* and a text in the place of every number
OnlyNumbersReplaced(a, b) ==
    IF IsDict(a)
    THEN /\ IsDict(b)
         /\ Keys(b) = Keys(a)
         /\ \A i \in 1..Len(a.val) : OnlyNumbersReplaced(a.val[i].v, b.val[i].v)
    ELSE IF IsList(a)
    THEN /\ IsList(b)
         /\ Len(b.val) = Len(a.val)
         /\ \A i \in 1..Len(a.val) : OnlyNumbersReplaced(a.val[i], b.val[i])
    ELSE IF a.kind = "num" THEN b.kind = "str"
    ELSE b = a

\* C7: localize_decimals_for_de keeps the container shape and keys, returns
\* every text, boolean and null leaf unchanged and replaces only number leaves
\* by text.
C7_OnlyNumericLeavesChange ==
    fn_pc = "localized" => OnlyNumbersReplaced(data, localized)

\* the date value is text whose first 10 characters parse as an ISO date on
\* or after the cutoff
UsableOnOrAfterCutoff(value) ==
    /\ value.kind = "str"
    /\ StrPTime(Slice10(value.val)) # NoDate
    /\ DateLE(EARLIEST_DAILY_DATE, StrPTime(Slice10(value.val)))

\* out is the subsequence of in, in order, of exactly the elements P holds of
IsSubsequenceKeeping(in, out, P(_)) ==
    LET kept == {i \in 1..Len(in) : P(in[i])}
        rank(i) == Cardinality({j \in kept : j <= i})
    IN  /\ Len(out) = Cardinality(kept)
        /\ \A i \in kept : out[rank(i)] = in[i]

\* what C8 says is kept: every element that is not dict-shaped, and every
\* dict-shaped record with a usable date on or after the cutoff
KeptAsClaimed(item) ==
    \/ ~IsDict(item)
    \/ HasKey(item, "date") /\ UsableOnOrAfterCutoff(Get(item, "date"))

\* as KeptAsClaimed, and every dict-shaped record with no date field
KeptAsAmended(item) ==
    \/ ~IsDict(item)
    \/ ~HasKey(item, "date")
    \/ UsableOnOrAfterCutoff(Get(item, "date"))

DatedBeforeCutoff(item) ==
    /\ IsDict(item)
    /\ HasKey(item, "date")
    /\ Get(item, "date").kind = "str"
    /\ StrPTime(Slice10(Get(item, "date").val)) # NoDate
    /\ ~DateLE(EARLIEST_DAILY_DATE, StrPTime(Slice10(Get(item, "date").val)))

\* C9: for a top-level mapping the keys are unchanged, non-sequence values
\* are unchanged, and no sequence value of the result holds a dict-shaped
\* record dated before the cutoff, wherever in the sequence it stood.
C9_MappingFilter ==
    (fn_pc = "once" /\ IsDict(data)) =>
        /\ IsDict(filtered)
        /\ Keys(filtered) = Keys(data)
        /\ \A i \in 1..Len(data.val) :
              IF IsList(data.val[i].v)
              THEN /\ IsList(filtered.val[i].v)
                   /\ \A j \in 1..Len(filtered.val[i].v.val) :
                         ~DatedBeforeCutoff(filtered.val[i].v.val[j])
              ELSE filtered.val[i].v = data.val[i].v

\* C10: filtering the filtered value again changes nothing.
C10_Idempotent == fn_pc = "twice" => refiltered = filtered

C10_Witness ==
    /\ fn_pc = "twice"
    /\ IsDict(data)
    /\ filtered # data
    /\ refiltered = filtered

\* the calendar day after d
NextDay(d) ==
    IF d[3] < DaysInMonth(d[1], d[2]) THEN <<d[1], d[2], d[3] + 1>>
    ELSE IF d[2] < 12 THEN <<d[1], d[2] + 1, 1>>
    ELSE <<d[1] + 1, 1, 1>>

RECURSIVE DaysOn(_, _)
\* the calendar day k days after d
DaysOn(d, k) == IF k = 0 THEN d ELSE DaysOn(NextDay(d), k - 1)

\* Monday and Sunday by the day count: 0001-01-01, day 1, is a Monday
IsMonday(d) == ToOrdinal(d) % 7 = 1
IsSunday(d) == ToOrdinal(d) % 7 = 0

\* C11: for every reference date the returned window is two ISO date texts,
\* seven consecutive days from a Monday to a Sunday, start <= end, and the
\* day after its end is the Monday of the reference date's own week (that
\* Monday is on or before the reference date and less than 7 days before it).
C11_LastCompleteWeek ==
    (pc = "start" /\ today # NoDate) =>
        LET start_dt == StrPTime(period_start)
            end_dt == StrPTime(period_end)
        IN  /\ Len(period_start) = 10 /\ Len(period_end) = 10
            /\ start_dt # NoDate /\ end_dt # NoDate
            /\ DaysOn(start_dt, 6) = end_dt
            /\ IsMonday(start_dt) /\ IsSunday(end_dt)
            /\ DateLE(start_dt, end_dt)
            /\ DateLE(NextDay(end_dt), today)
            /\ ~DateLE(DaysOn(end_dt, 8), today)

\* the docstring's example: called on Monday 2025-12-08
C11_Witness ==
    /\ pc = "start"
    /\ today = <<2025, 12, 8>>
    /\ period_start = StrFTime(<<2025, 12, 1>>)
    /\ period_end = StrFTime(<<2025, 12, 7>>)

====
